---------------------------- MODULE Spec2Model ----------------------------
(***************************************************************************)
(* Model of the uniq-proc daemon (src/src/main.rs): the Registry           *)
(* (DaemonState.commands / DaemonState.procs) behind one Mutex, the        *)
(* thread-per-connection dispatch of Daemon::run, and the handlers         *)
(* add / remove / list / execute / kill / toggle / restart, together with  *)
(* the OS process table the handlers spawn into, wait on and kill in.      *)
(*                                                                         *)
(* Every Mutex critical section is two steps: Lock(t) acquires the mutex,  *)
(* and the section's body runs and drops the guard in one step.  Steps     *)
(* outside a critical section (spawn, wait) are steps of their own.        *)
(*                                                                         *)
(* Process ids are fresh: the model does not let the OS hand a reaped pid  *)
(* to a later child.                                                       *)
(***************************************************************************)
EXTENDS Naturals, Integers, Sequences, FiniteSets, TLC

\* Number of connections the accept loop accepts (one handler thread each).
MaxThreads == 3

Threads == 1..MaxThreads
\* Every handler spawns at most one child, so MaxThreads pids suffice.
Pids == 1..MaxThreads
Names == {"a", "b"}
Cmds == {"c1", "c2"}

Nil == "nil"
NoCmd == "nocmd"
NoPid == 0
NoThread == 0

VARIABLES
    commands,     \* DaemonState.commands : name -> command, NoCmd when absent
    procs,        \* DaemonState.procs    : name -> pid, NoPid when absent
    lock,         \* holder of Daemon.data's Mutex, NoThread when free
    stateFile,    \* the file /tmp/uniq-proc.state
    configFile,   \* the file config.json of the config directory
    proc,         \* OS process table: pid -> "none" | "run" | "zombie" | "reaped"
    pc,           \* per handler thread: position in its handler
    msg,          \* per handler thread: the decoded Message
    command,      \* execute's local `command` (Option<String>)
    pid,          \* execute's local `pid`
    is_running,   \* execute's local `is_running` at its locked check
    tog_running,  \* toggle's local `is_running`
    response,     \* per handler thread: the lines of the response so far
    history,      \* history: which Kill requests follow a Kill of the same name
    keep,         \* Cli.keep of the agent holding the Registry
    main,         \* per agent process: position of its main thread
    flag,         \* the AtomicBool `running` of Daemon::run
    sock,         \* /tmp/uniq-proc.sock: what the path names, and the open listeners
    client        \* the invoking process of main(): position, probe result, output

(* The variables of the agent's life cycle and of the invoking client.     *)
life == <<keep, main, flag, sock, client>>

vars == <<commands, procs, lock, stateFile, configFile, proc, pc, msg,
          command, pid, is_running, tog_running, response, history,
          keep, main, flag, sock, client>>

---------------------------------------------------------------------------
(* Messages (enum Message) and an undecodable payload.                     *)

NameVerbs == {"Remove", "Execute", "Kill", "Restart", "Toggle"}

Message ==
    [verb : {"Add"}, name : Names, command : Cmds]
    \cup [verb : NameVerbs, name : Names, command : {Nil}]
    \cup [verb : {"List", "Alive", "Malformed"}, name : {Nil}, command : {Nil}]

NoMsg == [verb |-> Nil, name |-> Nil, command |-> Nil]

---------------------------------------------------------------------------
(* Response texts.  arg is the interpolated value, Nil when the text       *)
(* interpolates nothing.                                                   *)

Line(text, arg) == [text |-> text, arg |-> arg]

RespAdded(c)          == Line("Added: {}", c)
RespRemoved(n)        == Line("Removed {name}", n)
RespList(json)        == Line("{json}", json)
RespAlive             == Line("running", Nil)
RespParse             == Line("Could parse the command", Nil)
RespNotRegistered(n)  == Line("{name} is not registered yet", n)
RespExecuted(n)       == Line("{name} executed successfully", n)
RespExecutedRaced(n)  ==
    Line("{name} executed successfully, but was restarted with very interesting timing", n)
RespNotRunning(n)     == Line("{name} was not running via uniq-proc", n)
RespLookupFailed      == Line("Failed to get the process", Nil)
RespKilled            == Line("Successfully killed name", Nil)

---------------------------------------------------------------------------
(* serde_json::to_string(&data.commands): the entries of the HashMap in    *)
(* the map's iteration order, which is unspecified.                        *)

Entries(cmds) == {<<n, cmds[n]>> : n \in {m \in Names : cmds[m] # NoCmd}}

ToJson(cmds) ==
    LET E == Entries(cmds)
        k == Cardinality(E)
    IN  {s \in [1..k -> E] : \A i, j \in 1..k : i # j => s[i] # s[j]}

JsonHas(json, n, c) == \E i \in 1..Len(json) : json[i] = <<n, c>>
JsonHasName(json, n) == \E i \in 1..Len(json) : json[i][1] = n

---------------------------------------------------------------------------
(* Persistence.                                                            *)

(* A file is absent (exists = FALSE) or holds what was last written to it. *)
NoCommands == [n \in Names |-> NoCmd]
NoProcs == [n \in Names |-> NoPid]
NoStateFile == [exists |-> FALSE, commands |-> NoCommands, procs |-> NoProcs]
NoConfigFile == [exists |-> FALSE, commands |-> NoCommands]

SaveState(cmds, prs) == [exists |-> TRUE, commands |-> cmds, procs |-> prs]
WriteCommands(cmds) == [exists |-> TRUE, commands |-> cmds]

(* sysinfo's System::process(pid) after refresh_processes: the pid has an  *)
(* entry in the process table (a running process, or one that has exited   *)
(* and was not reaped yet).                                                *)
ProcessFound(p) == proc[p] \in {"run", "zombie"}

FreshPid == CHOOSE p \in Pids : proc[p] = "none" /\ \A q \in Pids : q < p => proc[q] # "none"

---------------------------------------------------------------------------
(* History bookkeeping for "Kill(n) twice in a row".  history.killed holds *)
(* the names n for which the body of a Kill(n) request has run and nothing *)
(* but Kill(n) requests has taken a step for n since; history.inRow holds  *)
(* the Kill handlers accepted while their name was in history.killed.  A   *)
(* step made for n on behalf of any other request ends both.               *)
NoHistory == [killed |-> {}, inRow |-> {}]

Touch(n) == [killed |-> history.killed \ {n},
             inRow  |-> {u \in history.inRow : msg[u].name # n}]

Asked(t, m) ==
    IF m.verb # "Kill" THEN Touch(m.name)
    ELSE IF m.name \in history.killed
            THEN [history EXCEPT !.inRow = @ \cup {t}]
            ELSE history

Killed(n) == [history EXCEPT !.killed = @ \cup {n}]

(* Agent processes: "A" holds the Registry of this model, "B" is a second  *)
(* agent started on the same channel.  The main thread of an agent is      *)
(* "off" (not started), at "new", "probe", "unlink_stale", "bind" during   *)
(* start-up, at "loop" (the while test) or "accept" in the accept loop,    *)
(* at "join", "save", "unlink" during shutdown, and ends "exited",         *)
(* "aborted" (a live agent answered the probe) or "panicked".              *)
Agents == {"A", "B"}
Serving == [a \in Agents |-> IF a = "A" THEN "accept" ELSE "off"]

(* The socket path names nothing ("absent"), a socket file nobody listens  *)
(* on ("stale"), or the listener of an agent.                              *)
BoundBy(a) == [path |-> a, listeners |-> {a}]

NoClient == [pc |-> "off", alive |-> Nil, out |-> Nil]

(* The state after Daemon::new(false) (DaemonState::new, lines 193-210):   *)
(* commands is what config.json holds when the file exists and is empty    *)
(* otherwise; procs is empty.  No handler thread exists yet.  The config   *)
(* file is absent, or it holds a command for every name.                   *)
ConfigFiles ==
    {NoConfigFile, WriteCommands([n \in Names |-> "c1"])}

Init ==
    /\ configFile \in ConfigFiles
    /\ commands = IF configFile.exists THEN configFile.commands ELSE NoCommands
    /\ procs = NoProcs
    /\ lock = NoThread
    /\ stateFile = NoStateFile
    /\ proc = [p \in Pids |-> "none"]
    /\ pc = [t \in Threads |-> "idle"]
    /\ msg = [t \in Threads |-> NoMsg]
    /\ command = [t \in Threads |-> NoCmd]
    /\ pid = [t \in Threads |-> NoPid]
    /\ is_running = [t \in Threads |-> FALSE]
    /\ tog_running = [t \in Threads |-> FALSE]
    /\ response = [t \in Threads |-> <<>>]
    /\ history = NoHistory
    /\ keep = FALSE
    /\ main = Serving
    /\ flag = TRUE
    /\ sock = BoundBy("A")
    /\ client = NoClient

---------------------------------------------------------------------------
(* The handler's first position, from the match in Daemon::run.            *)
Entry(verb) ==
    CASE verb = "Add"     -> "add_lock"
      [] verb = "Remove"  -> "remove_lock"
      [] verb = "List"    -> "list_lock"
      [] verb = "Kill"    -> "kill_lock"
      [] verb = "Restart" -> "kill_lock"
      [] verb = "Toggle"  -> "toggle_lock"
      [] verb = "Execute" -> "exec_lock1"
      [] OTHER            -> "done"

(* The accept loop (lines 133-143): accepts a connection, reads and        *)
(* decodes the payload on the acceptor and spawns the handler thread.      *)
(* Handler threads are numbered in the order they are spawned.             *)
Handed(t, m) ==
    /\ pc[t] = "idle"
    /\ \A u \in Threads : u < t => pc[u] # "idle"
    /\ msg' = [msg EXCEPT ![t] = m]
    /\ pc' = [pc EXCEPT ![t] = "dispatch"]
    /\ history' = Asked(t, m)
    /\ UNCHANGED <<commands, procs, lock, stateFile, configFile, proc,
                   command, pid, is_running, tog_running, response>>

(* An accept of the serving agent while no signal is ever sent: the loop's *)
(* test of the flag (always true) is folded into the accept.               *)
Accept(t, m) ==
    /\ main["A"] = "accept"
    /\ Handed(t, m)
    /\ UNCHANGED life

(* The handler thread's match on the message (lines 144-154): Alive and an *)
(* undecodable payload are answered at once, every other verb calls its    *)
(* handler.                                                                *)
Dispatch(t) ==
    /\ pc[t] = "dispatch"
    /\ pc' = [pc EXCEPT ![t] = Entry(msg[t].verb)]
    /\ response' = [response EXCEPT ![t] =
                       CASE msg[t].verb = "Alive"     -> <<RespAlive>>
                         [] msg[t].verb = "Malformed" -> <<RespParse>>
                         [] OTHER                     -> <<>>]
    /\ history' = IF msg[t].verb = "Kill" THEN history ELSE Touch(msg[t].name)
    /\ UNCHANGED life
    /\ UNCHANGED <<commands, procs, lock, stateFile, configFile, proc, msg,
                   command, pid, is_running, tog_running>>

LockPcs == {"add_lock", "remove_lock", "list_lock", "kill_lock", "toggle_lock",
            "exec_lock1", "exec_lock2", "exec_lock3"}

AfterLock(p) ==
    CASE p = "add_lock"    -> "add_cs"
      [] p = "remove_lock" -> "remove_cs"
      [] p = "list_lock"   -> "list_cs"
      [] p = "kill_lock"   -> "kill_cs"
      [] p = "toggle_lock" -> "toggle_cs"
      [] p = "exec_lock1"  -> "exec_cs1"
      [] p = "exec_lock2"  -> "exec_cs2"
      [] p = "exec_lock3"  -> "exec_cs3"

(* self.data.lock(): blocks until the mutex is free.                       *)
Lock(t) ==
    /\ pc[t] \in LockPcs
    /\ lock = NoThread
    /\ lock' = t
    /\ pc' = [pc EXCEPT ![t] = AfterLock(pc[t])]
    /\ history' = IF msg[t].verb = "Kill" THEN history ELSE Touch(msg[t].name)
    /\ UNCHANGED life
    /\ UNCHANGED <<commands, procs, stateFile, configFile, proc, msg,
                   command, pid, is_running, tog_running, response>>

(* Daemon::add                                                             *)
Add(t) ==
    /\ pc[t] = "add_cs" /\ lock = t
    /\ commands' = [commands EXCEPT ![msg[t].name] = msg[t].command]
    /\ stateFile' = SaveState(commands', procs)
    /\ configFile' = WriteCommands(commands')
    /\ response' = [response EXCEPT ![t] = <<RespAdded(commands'[msg[t].name])>>]
    /\ lock' = NoThread
    /\ pc' = [pc EXCEPT ![t] = "done"]
    /\ history' = Touch(msg[t].name)
    /\ UNCHANGED life
    /\ UNCHANGED <<procs, proc, msg, command, pid, is_running, tog_running>>

(* Mutant of Remove: removing a command also forgets the running entry.    *)
RemoveAlsoProcs(t) ==
    /\ pc[t] = "remove_cs" /\ lock = t
    /\ commands' = [commands EXCEPT ![msg[t].name] = NoCmd]
    /\ procs' = [procs EXCEPT ![msg[t].name] = NoPid]
    /\ stateFile' = SaveState(commands', procs')
    /\ configFile' = WriteCommands(commands')
    /\ response' = [response EXCEPT ![t] = <<RespRemoved(msg[t].name)>>]
    /\ lock' = NoThread
    /\ pc' = [pc EXCEPT ![t] = "done"]
    /\ history' = Touch(msg[t].name)
    /\ UNCHANGED life
    /\ UNCHANGED <<proc, msg, command, pid, is_running, tog_running>>

(* Daemon::remove                                                          *)
Remove(t) ==
    /\ pc[t] = "remove_cs" /\ lock = t
    /\ commands' = [commands EXCEPT ![msg[t].name] = NoCmd]
    /\ stateFile' = SaveState(commands', procs)
    /\ configFile' = WriteCommands(commands')
    /\ response' = [response EXCEPT ![t] = <<RespRemoved(msg[t].name)>>]
    /\ lock' = NoThread
    /\ pc' = [pc EXCEPT ![t] = "done"]
    /\ history' = Touch(msg[t].name)
    /\ UNCHANGED life
    /\ UNCHANGED <<procs, proc, msg, command, pid, is_running, tog_running>>

(* Daemon::list                                                            *)
List(t) ==
    /\ pc[t] = "list_cs" /\ lock = t
    /\ \E json \in ToJson(commands) :
          response' = [response EXCEPT ![t] = <<RespList(json)>>]
    /\ lock' = NoThread
    /\ pc' = [pc EXCEPT ![t] = "done"]
    /\ UNCHANGED life
    /\ UNCHANGED <<commands, procs, stateFile, configFile, proc, msg,
                   command, pid, is_running, tog_running, history>>

(* Daemon::execute, first critical section (lines 216-227): the locked    *)
(* check.  command is Some only if the name is not in procs and has a      *)
(* command; otherwise the handler returns "not registered yet".            *)
AfterExecute(t) == "done"

(* Mutant of ExecCheck: the command is looked up whether or not the name   *)
(* is running.                                                             *)
ExecCheckIgnoresRunning(t) ==
    /\ pc[t] = "exec_cs1" /\ lock = t
    /\ LET n == msg[t].name
           cmd == commands[n]
       IN  /\ is_running' = [is_running EXCEPT ![t] = procs[n] # NoPid]
           /\ command' = [command EXCEPT ![t] = cmd]
           /\ IF cmd = NoCmd
                 THEN /\ response' = [response EXCEPT ![t] =
                                         Append(@, RespNotRegistered(n))]
                      /\ pc' = [pc EXCEPT ![t] = AfterExecute(t)]
                 ELSE /\ response' = response
                      /\ pc' = [pc EXCEPT ![t] = "exec_spawn"]
    /\ lock' = NoThread
    /\ history' = Touch(msg[t].name)
    /\ UNCHANGED life
    /\ UNCHANGED <<commands, procs, stateFile, configFile, proc, msg,
                   pid, tog_running>>

(* Mutant of ExecCheck: the guard of the check is not dropped before the   *)
(* spawn.                                                                  *)
ExecCheckKeepsGuard(t) ==
    /\ pc[t] = "exec_cs1" /\ lock = t
    /\ LET n == msg[t].name
           running == procs[n] # NoPid
           cmd == IF ~running THEN commands[n] ELSE NoCmd
       IN  /\ is_running' = [is_running EXCEPT ![t] = running]
           /\ command' = [command EXCEPT ![t] = cmd]
           /\ IF cmd = NoCmd
                 THEN /\ response' = [response EXCEPT ![t] =
                                         Append(@, RespNotRegistered(n))]
                      /\ pc' = [pc EXCEPT ![t] = AfterExecute(t)]
                      /\ lock' = NoThread
                 ELSE /\ response' = response
                      /\ pc' = [pc EXCEPT ![t] = "exec_spawn"]
                      /\ lock' = lock
    /\ history' = Touch(msg[t].name)
    /\ UNCHANGED life
    /\ UNCHANGED <<commands, procs, stateFile, configFile, proc, msg,
                   pid, tog_running>>

ExecCheck(t) ==
    /\ pc[t] = "exec_cs1" /\ lock = t
    /\ LET n == msg[t].name
           running == procs[n] # NoPid
           cmd == IF ~running THEN commands[n] ELSE NoCmd
       IN  /\ is_running' = [is_running EXCEPT ![t] = running]
           /\ command' = [command EXCEPT ![t] = cmd]
           /\ IF cmd = NoCmd
                 THEN /\ response' = [response EXCEPT ![t] =
                                         Append(@, RespNotRegistered(n))]
                      /\ pc' = [pc EXCEPT ![t] = AfterExecute(t)]
                 ELSE /\ response' = response
                      /\ pc' = [pc EXCEPT ![t] = "exec_spawn"]
    /\ lock' = NoThread
    /\ history' = Touch(msg[t].name)
    /\ UNCHANGED life
    /\ UNCHANGED <<commands, procs, stateFile, configFile, proc, msg,
                   pid, tog_running>>

(* Command::new("sh").arg("-c").arg(command).spawn(), process.id()         *)
ExecSpawn(t) ==
    /\ pc[t] = "exec_spawn"
    /\ proc' = [proc EXCEPT ![FreshPid] = "run"]
    /\ pid' = [pid EXCEPT ![t] = FreshPid]
    /\ pc' = [pc EXCEPT ![t] = "exec_lock2"]
    /\ history' = Touch(msg[t].name)
    /\ UNCHANGED life
    /\ UNCHANGED <<commands, procs, lock, stateFile, configFile, msg,
                   command, is_running, tog_running, response>>

(* Mutant of ExecInsert: the guard taken for the insert is still held     *)
(* during the wait.                                                        *)
ExecInsertKeepsGuard(t) ==
    /\ pc[t] = "exec_cs2" /\ lock = t
    /\ procs' = [procs EXCEPT ![msg[t].name] = pid[t]]
    /\ stateFile' = SaveState(commands, procs')
    /\ lock' = lock
    /\ pc' = [pc EXCEPT ![t] = "exec_wait"]
    /\ history' = Touch(msg[t].name)
    /\ UNCHANGED life
    /\ UNCHANGED <<commands, configFile, proc, msg, command, pid,
                   is_running, tog_running, response>>

(* Mutant of ExecInsert: the pid is inserted but the state is not saved.   *)
ExecInsertNoSave(t) ==
    /\ pc[t] = "exec_cs2" /\ lock = t
    /\ procs' = [procs EXCEPT ![msg[t].name] = pid[t]]
    /\ lock' = NoThread
    /\ pc' = [pc EXCEPT ![t] = "exec_wait"]
    /\ history' = Touch(msg[t].name)
    /\ UNCHANGED life
    /\ UNCHANGED <<commands, stateFile, configFile, proc, msg, command, pid,
                   is_running, tog_running, response>>

(* Second critical section (lines 230-234): insert the pid and save.       *)
ExecInsert(t) ==
    /\ pc[t] = "exec_cs2" /\ lock = t
    /\ procs' = [procs EXCEPT ![msg[t].name] = pid[t]]
    /\ stateFile' = SaveState(commands, procs')
    /\ lock' = NoThread
    /\ pc' = [pc EXCEPT ![t] = "exec_wait"]
    /\ history' = Touch(msg[t].name)
    /\ UNCHANGED life
    /\ UNCHANGED <<commands, configFile, proc, msg, command, pid,
                   is_running, tog_running, response>>

(* process.wait() (line 235): returns once the child has exited, and       *)
(* reaps it.                                                               *)
ExecWait(t) ==
    /\ pc[t] = "exec_wait"
    /\ proc[pid[t]] = "zombie"
    /\ proc' = [proc EXCEPT ![pid[t]] = "reaped"]
    /\ pc' = [pc EXCEPT ![t] = "exec_lock3"]
    /\ history' = Touch(msg[t].name)
    /\ UNCHANGED life
    /\ UNCHANGED <<commands, procs, lock, stateFile, configFile, msg,
                   command, pid, is_running, tog_running, response>>

(* Mutant of ExecFinish: the entry is removed without comparing pids.      *)
ExecFinishUnconditional(t) ==
    /\ pc[t] = "exec_cs3" /\ lock = t
    /\ procs' = [procs EXCEPT ![msg[t].name] = NoPid]
    /\ stateFile' = SaveState(commands, procs')
    /\ response' = [response EXCEPT ![t] = Append(@, RespExecuted(msg[t].name))]
    /\ lock' = NoThread
    /\ pc' = [pc EXCEPT ![t] = AfterExecute(t)]
    /\ history' = Touch(msg[t].name)
    /\ UNCHANGED life
    /\ UNCHANGED <<commands, configFile, proc, msg, command, pid,
                   is_running, tog_running>>

(* Third critical section (lines 236-247): remove the entry only if it     *)
(* still holds this handler's pid.                                         *)
ExecFinish(t) ==
    /\ pc[t] = "exec_cs3" /\ lock = t
    /\ LET n == msg[t].name
       IN  IF procs[n] # NoPid /\ procs[n] = pid[t]
              THEN /\ procs' = [procs EXCEPT ![n] = NoPid]
                   /\ stateFile' = SaveState(commands, procs')
                   /\ response' = [response EXCEPT ![t] = Append(@, RespExecuted(n))]
              ELSE /\ UNCHANGED <<procs, stateFile>>
                   /\ response' = [response EXCEPT ![t] =
                                      Append(@, RespExecutedRaced(n))]
    /\ lock' = NoThread
    /\ pc' = [pc EXCEPT ![t] = AfterExecute(t)]
    /\ history' = Touch(msg[t].name)
    /\ UNCHANGED life
    /\ UNCHANGED <<commands, configFile, proc, msg, command, pid,
                   is_running, tog_running>>

(* Mutant of AfterKill: restart goes on to execute only if the name was    *)
(* running when kill looked.                                               *)
AfterKillOnlyIfRunning(t) ==
    IF msg[t].verb = "Restart" /\ procs[msg[t].name] # NoPid THEN "exec_lock1" ELSE "done"

(* Daemon::restart: kill(name) returns into execute(name); every other     *)
(* caller of kill returns to the dispatcher.                               *)
AfterKill(t) == IF msg[t].verb = "Restart" THEN "exec_lock1" ELSE "done"

(* Mutant of Kill: a lookup miss still removes the entry.                  *)
KillRemovesOnMiss(t) ==
    /\ pc[t] = "kill_cs" /\ lock = t
    /\ LET n == msg[t].name
           p == procs[n]
       IN  CASE p = NoPid ->
                  /\ response' = [response EXCEPT ![t] = Append(@, RespNotRunning(n))]
                  /\ UNCHANGED <<procs, stateFile, proc>>
             [] p # NoPid /\ ~ProcessFound(p) ->
                  /\ response' = [response EXCEPT ![t] = Append(@, RespLookupFailed)]
                  /\ procs' = [procs EXCEPT ![n] = NoPid]
                  /\ stateFile' = SaveState(commands, procs')
                  /\ UNCHANGED proc
             [] OTHER ->
                  /\ proc' = [proc EXCEPT ![p] = "zombie"]
                  /\ procs' = [procs EXCEPT ![n] = NoPid]
                  /\ stateFile' = SaveState(commands, procs')
                  /\ response' = [response EXCEPT ![t] = Append(@, RespKilled)]
    /\ lock' = NoThread
    /\ pc' = [pc EXCEPT ![t] = AfterKill(t)]
    /\ history' = IF msg[t].verb = "Kill"
                        THEN Killed(msg[t].name)
                        ELSE Touch(msg[t].name)
    /\ UNCHANGED life
    /\ UNCHANGED <<commands, configFile, msg, command, pid, is_running, tog_running>>

(* Daemon::kill (lines 250-265), one critical section.                     *)
Kill(t) ==
    /\ pc[t] = "kill_cs" /\ lock = t
    /\ LET n == msg[t].name
           p == procs[n]
       IN  CASE p = NoPid ->
                  /\ response' = [response EXCEPT ![t] = Append(@, RespNotRunning(n))]
                  /\ UNCHANGED <<procs, stateFile, proc>>
             [] p # NoPid /\ ~ProcessFound(p) ->
                  /\ response' = [response EXCEPT ![t] = Append(@, RespLookupFailed)]
                  /\ UNCHANGED <<procs, stateFile, proc>>
             [] OTHER ->
                  /\ proc' = [proc EXCEPT ![p] = "zombie"]
                  /\ procs' = [procs EXCEPT ![n] = NoPid]
                  /\ stateFile' = SaveState(commands, procs')
                  /\ response' = [response EXCEPT ![t] = Append(@, RespKilled)]
    /\ lock' = NoThread
    /\ pc' = [pc EXCEPT ![t] = AfterKill(t)]
    /\ history' = IF msg[t].verb = "Kill"
                        THEN Killed(msg[t].name)
                        ELSE Touch(msg[t].name)
    /\ UNCHANGED life
    /\ UNCHANGED <<commands, configFile, msg, command, pid, is_running, tog_running>>

(* Mutant of ToggleCheck: the branch is inverted.                          *)
ToggleCheckInverted(t) ==
    /\ pc[t] = "toggle_cs" /\ lock = t
    /\ LET running == procs[msg[t].name] # NoPid
       IN  /\ tog_running' = [tog_running EXCEPT ![t] = running]
           /\ pc' = [pc EXCEPT ![t] = IF running THEN "exec_lock1" ELSE "kill_lock"]
    /\ lock' = NoThread
    /\ history' = Touch(msg[t].name)
    /\ UNCHANGED life
    /\ UNCHANGED <<commands, procs, stateFile, configFile, proc, msg,
                   command, pid, is_running, response>>

(* Daemon::toggle (lines 266-276): the locked read, then kill or execute   *)
(* as a call of its own.                                                   *)
ToggleCheck(t) ==
    /\ pc[t] = "toggle_cs" /\ lock = t
    /\ LET running == procs[msg[t].name] # NoPid
       IN  /\ tog_running' = [tog_running EXCEPT ![t] = running]
           /\ pc' = [pc EXCEPT ![t] = IF running THEN "kill_lock" ELSE "exec_lock1"]
    /\ lock' = NoThread
    /\ history' = Touch(msg[t].name)
    /\ UNCHANGED life
    /\ UNCHANGED <<commands, procs, stateFile, configFile, proc, msg,
                   command, pid, is_running, response>>

(* The environment: a running child exits by itself.                       *)
ChildExit(p) ==
    /\ proc[p] = "run"
    /\ proc' = [proc EXCEPT ![p] = "zombie"]
    /\ UNCHANGED life
    /\ UNCHANGED <<commands, procs, lock, stateFile, configFile, pc, msg,
                   command, pid, is_running, tog_running, response, history>>

HandlerStep(t) ==
    \/ Dispatch(t)
    \/ Lock(t)
    \/ Add(t)
    \/ Remove(t)
    \/ List(t)
    \/ ExecCheck(t)
    \/ ExecSpawn(t)
    \/ ExecInsert(t)
    \/ ExecWait(t)
    \/ ExecFinish(t)
    \/ Kill(t)
    \/ ToggleCheck(t)

Next ==
    \/ \E t \in Threads, m \in Message : Accept(t, m)
    \/ \E t \in Threads : HandlerStep(t)
    \/ \E p \in Pids : ChildExit(p)

Spec == Init /\ [][Next]_vars

(* A smaller set of requests, used where behaviours rather than states are *)
(* checked: a registered name to execute and kill, another name to add and *)
(* execute, and the two requests that name nothing.                        *)
Msg(v, n, c) == [verb |-> v, name |-> n, command |-> c]

LiveMessages ==
    {Msg("Execute", "a", Nil), Msg("Execute", "b", Nil), Msg("Kill", "a", Nil),
     Msg("Add", "b", "c1"), Msg("List", Nil, Nil), Msg("Alive", Nil, Nil)}

(* The steps a handler of one of these requests can take.                  *)
LiveStep(t) ==
    \/ Dispatch(t)
    \/ Lock(t)
    \/ Add(t)
    \/ List(t)
    \/ ExecCheck(t)
    \/ ExecSpawn(t)
    \/ ExecInsert(t)
    \/ ExecWait(t)
    \/ ExecFinish(t)
    \/ Kill(t)

NextLive ==
    \/ \E t \in Threads, m \in LiveMessages : Accept(t, m)
    \/ \E t \in Threads : LiveStep(t)
    \/ \E p \in Pids : ChildExit(p)

(* The handler threads are scheduled fairly; a child is never required to  *)
(* exit and the acceptor is never required to accept.                      *)
FairSpec == Init /\ [][NextLive]_vars /\ \A t \in Threads : WF_vars(LiveStep(t))

---------------------------------------------------------------------------
(* Start-up of the Registry: DaemonState::new reads the two files.         *)

(* A u32 as serde_json writes it, in decimal digits, and as it parses it.  *)
RECURSIVE Digits(_)
Digits(p) == IF p < 10 THEN <<p>> ELSE Append(Digits(p \div 10), p % 10)

RECURSIVE NumberReversed(_)
(* Mutant of Number: the digits are weighted from the wrong end.           *)
NumberReversed(ds) ==
    IF Len(ds) = 1 THEN ds[1]
    ELSE ds[1] + 10 * NumberReversed(SubSeq(ds, 2, Len(ds)))

RECURSIVE Number(_)
Number(ds) ==
    IF Len(ds) = 1 THEN ds[1]
    ELSE 10 * Number(SubSeq(ds, 1, Len(ds) - 1)) + ds[Len(ds)]

(* serde_json::to_string_pretty(&self.procs): the members of the map, each *)
(* a name and a number, in the map's iteration order.                      *)
PidEntries(prs) == {<<n, Digits(prs[n])>> : n \in {m \in Names : prs[m] # NoPid}}

PidsToJson(prs) ==
    LET E == PidEntries(prs)
        k == Cardinality(E)
    IN  {s \in [1..k -> E] : \A i, j \in 1..k : i # j => s[i] # s[j]}

(* The documents save_state can write for a Registry: the struct's fields  *)
(* in declaration order, each map in its own iteration order.              *)
StateJson(cmds, prs) ==
    {[commands |-> c, procs |-> r] : c \in ToJson(cmds), r \in PidsToJson(prs)}

(* from_str into a HashMap: a name that has a member maps to its value.    *)
Member(json, n) == json[CHOOSE i \in 1..Len(json) : json[i][1] = n][2]
CommandsFromJson(json) ==
    [n \in Names |-> IF JsonHasName(json, n) THEN Member(json, n) ELSE NoCmd]
ProcsFromJson(json) ==
    [n \in Names |-> IF JsonHasName(json, n) THEN Number(Member(json, n)) ELSE NoPid]

(* Mutant of DaemonStateNew: a kept snapshot's commands win over the       *)
(* config file.                                                            *)
DaemonStateNewSnapshotWins(k, stateExists, stateText, configExists, configText) ==
    LET kept == k /\ stateExists IN
    [commands |-> IF kept THEN CommandsFromJson(stateText.commands)
                  ELSE IF configExists THEN CommandsFromJson(configText)
                  ELSE NoCommands,
     procs    |-> IF kept THEN ProcsFromJson(stateText.procs) ELSE NoProcs]

(* DaemonState::new(keep) (lines 193-210), on the text of the two files.   *)
DaemonStateNew(k, stateExists, stateText, configExists, configText) ==
    LET default == [commands |-> NoCommands, procs |-> NoProcs]
        kept == k /\ stateExists
        parsed == [commands |-> CommandsFromJson(stateText.commands),
                   procs    |-> ProcsFromJson(stateText.procs)]
        afterState ==
            IF kept
            THEN [commands |-> IF ~configExists THEN parsed.commands
                               ELSE default.commands,
                  procs    |-> parsed.procs]
            ELSE default
    IN  IF configExists
        THEN [afterState EXCEPT !.commands = CommandsFromJson(configText)]
        ELSE afterState

(* Daemon::new(cli.keep) in main (line 329): agent a builds its Registry.  *)
(* The Registry of this model is that of agent "A".                        *)
New(a) ==
    /\ main[a] = "new"
    /\ main' = [main EXCEPT ![a] = "probe"]
    /\ IF a = "A"
       THEN \E stateText \in StateJson(stateFile.commands, stateFile.procs),
               configText \in ToJson(configFile.commands) :
               LET r == DaemonStateNew(keep, stateFile.exists, stateText,
                                       configFile.exists, configText)
               IN  commands' = r.commands /\ procs' = r.procs
       ELSE UNCHANGED <<commands, procs>>
    /\ UNCHANGED <<keep, flag, sock, client>>
    /\ UNCHANGED <<lock, stateFile, configFile, proc, pc, msg, command, pid,
                   is_running, tog_running, response, history>>

(* The files an agent can find at start-up: no snapshot or the snapshot of *)
(* any Registry, with pids of a prior instance up to MaxSnapshotPid; no    *)
(* config file or one holding any commands.                                *)
MaxSnapshotPid == 11
RegistryCommands == [Names -> Cmds \cup {NoCmd}]
StateFiles ==
    {NoStateFile} \cup
    {SaveState(c, r) : c \in RegistryCommands, r \in [Names -> {NoPid} \cup 1..MaxSnapshotPid]}
StartConfigFiles == {NoConfigFile} \cup {WriteCommands(c) : c \in RegistryCommands}

Starting == [a \in Agents |-> IF a = "A" THEN "new" ELSE "off"]

StartInit ==
    /\ keep \in BOOLEAN
    /\ stateFile \in StateFiles
    /\ configFile \in StartConfigFiles
    /\ commands = NoCommands
    /\ procs = NoProcs
    /\ main = Starting
    /\ flag = TRUE
    /\ sock = [path |-> "absent", listeners |-> {}]
    /\ client = NoClient
    /\ lock = NoThread
    /\ proc = [p \in Pids |-> "none"]
    /\ pc = [t \in Threads |-> "idle"]
    /\ msg = [t \in Threads |-> NoMsg]
    /\ command = [t \in Threads |-> NoCmd]
    /\ pid = [t \in Threads |-> NoPid]
    /\ is_running = [t \in Threads |-> FALSE]
    /\ tog_running = [t \in Threads |-> FALSE]
    /\ response = [t \in Threads |-> <<>>]
    /\ history = NoHistory

StartNext == New("A")

StartSpec == StartInit /\ [][StartNext]_vars

---------------------------------------------------------------------------
(* Start-up of the agents and the invoking client.                         *)

(* UnixStream::connect(SOCKET_PATH) succeeds when the path names a socket  *)
(* some agent listens on; an agent inside its accept loop accepts the      *)
(* connection and its handler answers.                                     *)
Connectable == sock.path \in Agents /\ sock.path \in sock.listeners
InAcceptLoop(a) == main[a] \in {"loop", "accept"}
Answering == Connectable /\ InAcceptLoop(sock.path)

(* send_message(Message::Alive) (lines 299-321): "running" from an agent   *)
(* that answers, the connect error otherwise.  A connection to an agent    *)
(* that has left its accept loop is answered by nobody until that agent    *)
(* exits.                                                                  *)
Probed == ~Connectable \/ Answering
AliveResponse == IF Answering THEN "running" ELSE "connect failed"

(* Another invocation of `uniq-proc daemon` starts agent "B".              *)
StartOther ==
    /\ main["B"] = "off"
    /\ main' = [main EXCEPT !["B"] = "new"]
    /\ UNCHANGED <<keep, flag, sock, client>>
    /\ UNCHANGED <<commands, procs, lock, stateFile, configFile, proc, pc, msg,
                   command, pid, is_running, tog_running, response, history>>

(* Daemon::run, lines 108-110: the liveness probe.                         *)
Probe(a) ==
    /\ main[a] = "probe"
    /\ Probed
    /\ main' = [main EXCEPT ![a] = IF AliveResponse = "running"
                                      THEN "aborted" ELSE "unlink_stale"]
    /\ UNCHANGED <<keep, flag, sock, client>>
    /\ UNCHANGED <<commands, procs, lock, stateFile, configFile, proc, pc, msg,
                   command, pid, is_running, tog_running, response, history>>

(* Line 111: let _ = remove_file(SOCKET_PATH), whatever the path names.    *)
UnlinkStale(a) ==
    /\ main[a] = "unlink_stale"
    /\ sock' = [sock EXCEPT !.path = "absent"]
    /\ main' = [main EXCEPT ![a] = "bind"]
    /\ UNCHANGED <<keep, flag, client>>
    /\ UNCHANGED <<commands, procs, lock, stateFile, configFile, proc, pc, msg,
                   command, pid, is_running, tog_running, response, history>>

(* Lines 127-131: UnixListener::bind(SOCKET_PATH).expect(..) creates the   *)
(* socket file, and panics if the path exists.                             *)
Bind(a) ==
    /\ main[a] = "bind"
    /\ IF sock.path = "absent"
       THEN /\ sock' = [path |-> a, listeners |-> sock.listeners \cup {a}]
            /\ main' = [main EXCEPT ![a] = "accept"]
       ELSE /\ main' = [main EXCEPT ![a] = "panicked"]
            /\ UNCHANGED sock
    /\ UNCHANGED <<keep, flag, client>>
    /\ UNCHANGED <<commands, procs, lock, stateFile, configFile, proc, pc, msg,
                   command, pid, is_running, tog_running, response, history>>

(* main, line 334: the client's own liveness probe.                        *)
ClientProbe ==
    /\ client.pc = "probe"
    /\ Probed
    /\ client' = [client EXCEPT !.alive = AliveResponse,
                                !.pc = IF AliveResponse = "running"
                                          THEN "send" ELSE "launch"]
    /\ UNCHANGED <<keep, main, flag, sock>>
    /\ UNCHANGED <<commands, procs, lock, stateFile, configFile, proc, pc, msg,
                   command, pid, is_running, tog_running, response, history>>

(* Lines 335-342: the client spawns `uniq-proc [-k] daemon`, agent "A".    *)
ClientLaunch ==
    /\ client.pc = "launch"
    /\ main["A"] = "off"
    /\ main' = [main EXCEPT !["A"] = "new"]
    /\ client' = [client EXCEPT !.pc = "wait"]
    /\ UNCHANGED <<keep, flag, sock>>
    /\ UNCHANGED <<commands, procs, lock, stateFile, configFile, proc, pc, msg,
                   command, pid, is_running, tog_running, response, history>>

(* Lines 344-346: while !PathBuf::from(SOCKET_PATH).exists() { sleep }.    *)
ClientWait ==
    /\ client.pc = "wait"
    /\ sock.path # "absent"
    /\ client' = [client EXCEPT !.pc = "send"]
    /\ UNCHANGED <<keep, main, flag, sock>>
    /\ UNCHANGED <<commands, procs, lock, stateFile, configFile, proc, pc, msg,
                   command, pid, is_running, tog_running, response, history>>

(* Lines 349-353: send_message(request) and print the response: the        *)
(* agent's answer, or the connect error.                                   *)
ClientSend ==
    /\ client.pc = "send"
    /\ Probed
    /\ client' = [client EXCEPT !.out = IF Answering THEN "answered"
                                                     ELSE "connect failed",
                                !.pc = "done"]
    /\ UNCHANGED <<keep, main, flag, sock>>
    /\ UNCHANGED <<commands, procs, lock, stateFile, configFile, proc, pc, msg,
                   command, pid, is_running, tog_running, response, history>>

(* A client is invoked while no agent runs; the socket path names nothing, *)
(* or a socket file left behind by an agent that ended without removing    *)
(* it.                                                                     *)
BootInit ==
    /\ keep \in BOOLEAN
    /\ stateFile = NoStateFile
    /\ configFile \in ConfigFiles
    /\ commands = NoCommands
    /\ procs = NoProcs
    /\ main = [a \in Agents |-> "off"]
    /\ flag = TRUE
    /\ sock \in {[path |-> f, listeners |-> {}] : f \in {"absent", "stale"}}
    /\ client = [NoClient EXCEPT !.pc = "probe"]
    /\ lock = NoThread
    /\ proc = [p \in Pids |-> "none"]
    /\ pc = [t \in Threads |-> "idle"]
    /\ msg = [t \in Threads |-> NoMsg]
    /\ command = [t \in Threads |-> NoCmd]
    /\ pid = [t \in Threads |-> NoPid]
    /\ is_running = [t \in Threads |-> FALSE]
    /\ tog_running = [t \in Threads |-> FALSE]
    /\ response = [t \in Threads |-> <<>>]
    /\ history = NoHistory

BootNext ==
    \/ StartOther
    \/ \E a \in Agents : New(a)
    \/ \E a \in Agents : Probe(a)
    \/ \E a \in Agents : UnlinkStale(a)
    \/ \E a \in Agents : Bind(a)
    \/ ClientProbe
    \/ ClientLaunch
    \/ ClientWait
    \/ ClientSend

BootSpec == BootInit /\ [][BootNext]_vars

---------------------------------------------------------------------------
(* The serving agent "A" with its accept loop, the signal and shutdown.    *)

(* Mutant of LoopCheck: the loop does not look at the flag.                *)
LoopCheckIgnoresFlag ==
    /\ main["A"] = "loop"
    /\ main' = [main EXCEPT !["A"] = "accept"]
    /\ UNCHANGED <<keep, flag, sock, client>>
    /\ UNCHANGED <<commands, procs, lock, stateFile, configFile, proc, pc, msg,
                   command, pid, is_running, tog_running, response, history>>

(* Line 133: while running.load(SeqCst).                                   *)
LoopCheck ==
    /\ main["A"] = "loop"
    /\ main' = [main EXCEPT !["A"] = IF flag THEN "accept" ELSE "join"]
    /\ UNCHANGED <<keep, flag, sock, client>>
    /\ UNCHANGED <<commands, procs, lock, stateFile, configFile, proc, pc, msg,
                   command, pid, is_running, tog_running, response, history>>

(* Lines 134-156: socket.accept() returns a connection; the request is     *)
(* read and its handler thread spawned; back to the loop test.             *)
AcceptConnection(t, m) ==
    /\ main["A"] = "accept"
    /\ Handed(t, m)
    /\ main' = [main EXCEPT !["A"] = "loop"]
    /\ UNCHANGED <<keep, flag, sock, client>>

(* Line 158: no pending connection; sleep, back to the loop test.          *)
NoConnection ==
    /\ main["A"] = "accept"
    /\ main' = [main EXCEPT !["A"] = "loop"]
    /\ UNCHANGED <<keep, flag, sock, client>>
    /\ UNCHANGED <<commands, procs, lock, stateFile, configFile, proc, pc, msg,
                   command, pid, is_running, tog_running, response, history>>

(* Lines 115-125: the signal thread receives SIGINT or SIGTERM, stores     *)
(* false and ends.                                                         *)
Signal ==
    /\ flag
    /\ flag' = FALSE
    /\ UNCHANGED <<keep, main, sock, client>>
    /\ UNCHANGED <<commands, procs, lock, stateFile, configFile, proc, pc, msg,
                   command, pid, is_running, tog_running, response, history>>

(* Line 228, spawn().unwrap() on Err: the handler thread panics; its       *)
(* stream is dropped with nothing written.                                 *)
ExecSpawnFails(t) ==
    /\ pc[t] = "exec_spawn"
    /\ pc' = [pc EXCEPT ![t] = "panicked"]
    /\ history' = Touch(msg[t].name)
    /\ UNCHANGED life
    /\ UNCHANGED <<commands, procs, lock, stateFile, configFile, proc, msg,
                   command, pid, is_running, tog_running, response>>

Finished(t) == pc[t] \in {"idle", "done", "panicked"}

(* Mutant of Join: the scope is left without joining the handlers.         *)
JoinWithoutWaiting ==
    /\ main["A"] = "join"
    /\ main' = [main EXCEPT !["A"] = "save"]
    /\ UNCHANGED <<keep, flag, sock, client>>
    /\ UNCHANGED <<commands, procs, lock, stateFile, configFile, proc, pc, msg,
                   command, pid, is_running, tog_running, response, history>>

(* Line 161, the end of std::thread::scope: every spawned handler is       *)
(* joined; if one of them panicked the scope panics, the process ends and  *)
(* its listener is closed.                                                 *)
Join ==
    /\ main["A"] = "join"
    /\ \A t \in Threads : Finished(t)
    /\ IF \E t \in Threads : pc[t] = "panicked"
       THEN /\ main' = [main EXCEPT !["A"] = "panicked"]
            /\ sock' = [sock EXCEPT !.listeners = @ \ {"A"}]
       ELSE /\ main' = [main EXCEPT !["A"] = "save"]
            /\ UNCHANGED sock
    /\ UNCHANGED <<keep, flag, client>>
    /\ UNCHANGED <<commands, procs, lock, stateFile, configFile, proc, pc, msg,
                   command, pid, is_running, tog_running, response, history>>

(* Line 162: self.data.lock().expect(..).save_state().                     *)
FinalSave ==
    /\ main["A"] = "save"
    /\ lock = NoThread
    /\ stateFile' = SaveState(commands, procs)
    /\ main' = [main EXCEPT !["A"] = "unlink"]
    /\ UNCHANGED <<keep, flag, sock, client>>
    /\ UNCHANGED <<commands, procs, lock, configFile, proc, pc, msg,
                   command, pid, is_running, tog_running, response, history>>

(* Line 163: remove_file(SOCKET_PATH).expect("can remove socket"), and the *)
(* process ends.                                                           *)
Unlink ==
    /\ main["A"] = "unlink"
    /\ IF sock.path # "absent"
       THEN /\ sock' = [path |-> "absent", listeners |-> sock.listeners \ {"A"}]
            /\ main' = [main EXCEPT !["A"] = "exited"]
       ELSE /\ sock' = [sock EXCEPT !.listeners = @ \ {"A"}]
            /\ main' = [main EXCEPT !["A"] = "panicked"]
    /\ UNCHANGED <<keep, flag, client>>
    /\ UNCHANGED <<commands, procs, lock, stateFile, configFile, proc, pc, msg,
                   command, pid, is_running, tog_running, response, history>>

(* The steps of a handler, with a spawn that can fail.                     *)
ShutStep(t) ==
    \/ LiveStep(t)
    \/ ExecSpawnFails(t)

ShutNext ==
    \/ LoopCheck
    \/ \E t \in Threads, m \in LiveMessages : AcceptConnection(t, m)
    \/ NoConnection
    \/ Signal
    \/ \E t \in Threads : ShutStep(t)
    \/ \E p \in Pids : ChildExit(p)
    \/ Join
    \/ FinalSave
    \/ Unlink

ShutSpec == Init /\ [][ShutNext]_vars

---------------------------------------------------------------------------
(* An agent started with keep on the snapshot of a prior instance that     *)
(* ended while a child of "a" was running.                                 *)

(* The pid of that child.  It is no child of this agent: when it ends,     *)
(* by itself or killed, init reaps it.                                     *)
SnapshotPid == MaxThreads + 1

OrphanExit ==
    /\ proc[SnapshotPid] \in {"run", "zombie"}
    /\ proc' = [proc EXCEPT ![SnapshotPid] = "reaped"]
    /\ UNCHANGED life
    /\ UNCHANGED <<commands, procs, lock, stateFile, configFile, pc, msg,
                   command, pid, is_running, tog_running, response, history>>

KeptSnapshot ==
    SaveState([n \in Names |-> "c1"],
              [n \in Names |-> IF n = "a" THEN SnapshotPid ELSE NoPid])

(* The state after Daemon::new(true) on that snapshot, the agent serving;  *)
(* the child of the prior instance still runs or is gone.                  *)
KeepInit ==
    /\ keep = TRUE
    /\ stateFile = KeptSnapshot
    /\ configFile \in ConfigFiles
    /\ \E stateText \in StateJson(stateFile.commands, stateFile.procs),
          configText \in ToJson(configFile.commands) :
          LET r == DaemonStateNew(keep, stateFile.exists, stateText,
                                  configFile.exists, configText)
          IN  commands = r.commands /\ procs = r.procs
    /\ proc \in {[p \in Pids \cup {SnapshotPid} |->
                     IF p = SnapshotPid THEN st ELSE "none"] : st \in {"run", "reaped"}}
    /\ lock = NoThread
    /\ pc = [t \in Threads |-> "idle"]
    /\ msg = [t \in Threads |-> NoMsg]
    /\ command = [t \in Threads |-> NoCmd]
    /\ pid = [t \in Threads |-> NoPid]
    /\ is_running = [t \in Threads |-> FALSE]
    /\ tog_running = [t \in Threads |-> FALSE]
    /\ response = [t \in Threads |-> <<>>]
    /\ history = NoHistory
    /\ main = Serving
    /\ flag = TRUE
    /\ sock = BoundBy("A")
    /\ client = NoClient

KeepMessages == {Msg("Execute", "a", Nil), Msg("Kill", "a", Nil)}

KeepStep(t) ==
    \/ Dispatch(t)
    \/ Lock(t)
    \/ ExecCheck(t)
    \/ ExecSpawn(t)
    \/ ExecInsert(t)
    \/ ExecWait(t)
    \/ ExecFinish(t)
    \/ Kill(t)

KeepNext ==
    \/ \E t \in Threads, m \in KeepMessages : Accept(t, m)
    \/ \E t \in Threads : KeepStep(t)
    \/ \E p \in Pids : ChildExit(p)
    \/ OrphanExit

(* The handler threads are scheduled fairly.                               *)
KeepFairSpec == KeepInit /\ [][KeepNext]_vars /\ \A t \in Threads : WF_vars(KeepStep(t))

---------------------------------------------------------------------------
(* Vocabulary of the properties.                                           *)

Stepped(t, at) == pc[t] = at /\ pc'[t] # at
LastLine(r) == r[Len(r)]
InExecute(t) == pc[t] \in {"exec_lock1", "exec_cs1", "exec_spawn", "exec_lock2",
                           "exec_cs2", "exec_wait", "exec_lock3", "exec_cs3"}
InKill(t) == pc[t] \in {"kill_lock", "kill_cs"}
LiveChildren(n) ==
    {t \in Threads : pid[t] # NoPid /\ msg[t].name = n /\ proc[pid[t]] = "run"}
KillResponses(n) == {RespNotRunning(n), RespLookupFailed, RespKilled}
ExecuteResponses(n) == {RespNotRegistered(n), RespExecuted(n), RespExecutedRaced(n)}

(* What the locked check of execute does in a step of handler t.           *)
ExecCheckContract(t) ==
    LET n == msg[t].name IN
    Stepped(t, "exec_cs1") =>
        /\ UNCHANGED <<commands, procs, proc, stateFile, configFile>>
        /\ (pc'[t] = "exec_spawn") <=> (procs[n] = NoPid /\ commands[n] # NoCmd)
        /\ pc'[t] # "exec_spawn" =>
              /\ pc'[t] = "done"
              /\ pid'[t] = NoPid
              /\ LastLine(response'[t]) = RespNotRegistered(n)

(* What the completion of execute does in a step of handler t.             *)
ExecFinishContract(t) ==
    LET n == msg[t].name IN
    Stepped(t, "exec_cs3") =>
        /\ commands' = commands
        /\ IF procs[n] = pid[t]
              THEN /\ procs' = [procs EXCEPT ![n] = NoPid]
                   /\ stateFile' = SaveState(commands', procs')
                   /\ LastLine(response'[t]) = RespExecuted(n)
              ELSE /\ procs' = procs
                   /\ LastLine(response'[t]) = RespExecutedRaced(n)
        /\ \A m \in Names : procs[m] # pid[t] => procs'[m] = procs[m]

(* What kill does in a step of handler t.                                  *)
KillContract(t) ==
    LET n == msg[t].name
        p == procs[n]
    IN  Stepped(t, "kill_cs") =>
        /\ commands' = commands
        /\ \A m \in Names \ {n} : procs'[m] = procs[m]
        /\ (procs'[n] # procs[n]) <=> (p # NoPid /\ ProcessFound(p))
        /\ p = NoPid =>
              /\ LastLine(response'[t]) = RespNotRunning(n)
              /\ UNCHANGED <<procs, proc, stateFile, configFile>>
        /\ (p # NoPid /\ ~ProcessFound(p)) =>
              /\ LastLine(response'[t]) = RespLookupFailed
              /\ LastLine(response'[t]) # RespNotRunning(n)
              /\ UNCHANGED <<procs, proc, stateFile, configFile>>
        /\ (p # NoPid /\ ProcessFound(p)) =>
              /\ LastLine(response'[t]) = RespKilled
              /\ procs'[n] = NoPid
              /\ proc'[p] # "run"
              /\ stateFile' = SaveState(commands', procs')

---------------------------------------------------------------------------
(* C1: no handler holds the Registry lock while it spawns a child or is    *)
(* blocked waiting for its child to exit; the lock is held only inside the *)
(* bodies of the critical sections.                                        *)
C1_NoLockWhileWaiting ==
    \A t \in Threads :
        /\ pc[t] \in {"exec_spawn", "exec_wait"} => lock # t
        /\ lock = t => pc[t] \in {AfterLock(p) : p \in LockPcs}

(* C1 witness: a handler waits for a child that is still running while     *)
(* another handler is inside a critical section.                           *)
C1_Witness ==
    \E t, u \in Threads :
        /\ t # u
        /\ pc[t] = "exec_wait" /\ proc[pid[t]] = "run"
        /\ lock = u

(* C2 (as claimed): for every name at most one live child started by the   *)
(* agent exists at any time.                                               *)
C2_AtMostOneLiveChild ==
    \A n \in Names : Cardinality(LiveChildren(n)) <= 1

(* C3: execute spawns only when its locked check found the name absent     *)
(* from procs and present in commands; otherwise it spawns nothing, leaves *)
(* procs and commands as they are and answers "not registered yet"; and a  *)
(* child is only ever created by the spawn step of such a handler.         *)
C3_ExecuteSpawnGuard ==
    [][ /\ \A t \in Threads : ExecCheckContract(t)
        /\ \A t \in Threads :
              Stepped(t, "exec_spawn") => (~is_running[t] /\ command[t] # NoCmd)
        /\ \A p \in Pids :
              (proc[p] = "none" /\ proc'[p] # "none") =>
                  \E t \in Threads : Stepped(t, "exec_spawn") /\ pid'[t] = p
      ]_vars

(* C3 witness: an Execute found its name already running, spawned nothing  *)
(* and the existing entry is still there.                                  *)
C3_Witness ==
    \E t, u \in Threads :
        /\ t # u
        /\ msg[t].verb = "Execute" /\ pc[t] = "done"
        /\ is_running[t] /\ pid[t] = NoPid
        /\ msg[u].name = msg[t].name /\ pc[u] = "exec_wait"
        /\ procs[msg[t].name] = pid[u]

(* C4: the completion of execute removes procs[name] and saves exactly     *)
(* when the entry still holds the pid this handler spawned; otherwise it   *)
(* changes nothing in procs, so it never removes another instance's entry. *)
C4_ExecuteCompletion ==
    [][\A t \in Threads : ExecFinishContract(t)]_vars

(* C4 witness: a handler completed after its name was killed and executed  *)
(* again, and the newer instance's entry is still in procs.                *)
C4_Witness ==
    \E t, u \in Threads :
        /\ t # u
        /\ pc[t] = "done" /\ response[t] # <<>>
        /\ LastLine(response[t]) = RespExecutedRaced(msg[t].name)
        /\ msg[u].name = msg[t].name
        /\ pid[u] # NoPid /\ procs[msg[t].name] = pid[u]

(* C5: kill removes the name from procs iff it was present and its pid was *)
(* found in the process table; an absent name is answered "was not         *)
(* running", a lookup miss is answered "Failed to get the process", and in *)
(* both cases commands and procs are unchanged.                            *)
C5_KillRemovesIffFound ==
    [][\A t \in Threads : KillContract(t)]_vars

(* C5 witness: a Kill missed the process lookup and the entry is still in  *)
(* procs.                                                                  *)
C5_Witness ==
    \E t \in Threads :
        /\ msg[t].verb = "Kill" /\ pc[t] = "done"
        /\ response[t] = <<RespLookupFailed>>
        /\ procs[msg[t].name] # NoPid

(* C6 (as claimed): a Kill(n) accepted after the body of a Kill(n) has run, *)
(* with no step of any other request for n since that body, answers "was   *)
(* not running" and changes nothing.                                       *)
C6_SecondKillNotRunning ==
    [][\A t \in Threads :
          (msg[t].verb = "Kill" /\ Stepped(t, "kill_cs") /\ t \in history.inRow) =>
              /\ response'[t] = <<RespNotRunning(msg[t].name)>>
              /\ UNCHANGED <<commands, procs>>
      ]_vars

(* C7: a List, Add or Alive request is answered, and an Execute reaches    *)
(* its own wait or its answer, whether or not any child ever exits.        *)
C7_AnsweredWithoutChildExit ==
    \A t \in Threads :
        /\ (pc[t] # "idle" /\ msg[t].verb \in {"List", "Add", "Alive"}) ~> (pc[t] = "done")
        /\ (pc[t] # "idle" /\ msg[t].verb = "Execute")
              ~> (pc[t] \in {"exec_wait", "exec_lock3", "exec_cs3", "done"})

(* C7 witness: a List accepted after an Execute is answered while the      *)
(* Execute's child is still running, and an Execute of the other name is   *)
(* waiting for its own child.                                              *)
C7_Witness ==
    \E t, u, v \in Threads :
        /\ t < u /\ t < v
        /\ msg[t].verb = "Execute" /\ pc[t] = "exec_wait" /\ proc[pid[t]] = "run"
        /\ msg[u].verb = "List" /\ pc[u] = "done"
        /\ msg[v].verb = "Execute" /\ msg[v].name # msg[t].name /\ pc[v] = "exec_wait"

(* C8: toggle branches to kill exactly when its locked read finds the name *)
(* in procs and to execute otherwise, mutating nothing itself; from there  *)
(* on its steps, its effect on commands and procs and its response are     *)
(* those of the chosen kill or execute in the state it then runs in.       *)
C8_ToggleIsKillOrExecute ==
    [][\A t \in Threads : msg[t].verb = "Toggle" =>
          /\ Stepped(t, "toggle_cs") =>
                /\ UNCHANGED <<commands, procs, proc, stateFile, configFile>>
                /\ pc'[t] = IF procs[msg[t].name] # NoPid THEN "kill_lock" ELSE "exec_lock1"
                /\ tog_running'[t] = (procs[msg[t].name] # NoPid)
          /\ KillContract(t)
          /\ ExecCheckContract(t)
          /\ ExecFinishContract(t)
          /\ InKill(t)' => tog_running'[t]
          /\ InExecute(t)' => ~tog_running'[t]
          /\ pc'[t] = "done" =>
                /\ Len(response'[t]) = 1
                /\ response'[t][1] \in (IF tog_running'[t]
                                           THEN KillResponses(msg[t].name)
                                           ELSE ExecuteResponses(msg[t].name))
                /\ tog_running'[t] => pid'[t] = NoPid
      ]_vars

(* C8 witness: a Toggle read the name as running, and by the time its kill *)
(* ran the entry was gone: it answered what Kill answers then.             *)
C8_Witness ==
    \E t \in Threads :
        /\ msg[t].verb = "Toggle" /\ pc[t] = "done"
        /\ tog_running[t]
        /\ response[t] = <<RespNotRunning(msg[t].name)>>

(* C9: add sets commands[name] to the command, remove deletes it (and      *)
(* succeeds when it was absent), list answers exactly the entries of       *)
(* commands, an execute whose check finds no command answers "not          *)
(* registered yet" whether or not the name is in procs; commands changes   *)
(* only in add and remove, and add, remove and list never change procs.    *)
C9_AddRemoveList ==
    [][ /\ \A t \in Threads :
              LET n == msg[t].name IN
              /\ Stepped(t, "add_cs") =>
                    /\ commands' = [commands EXCEPT ![n] = msg[t].command]
                    /\ response'[t] = <<RespAdded(msg[t].command)>>
                    /\ procs' = procs /\ proc' = proc
              /\ Stepped(t, "remove_cs") =>
                    /\ commands' = [commands EXCEPT ![n] = NoCmd]
                    /\ response'[t] = <<RespRemoved(n)>>
                    /\ procs' = procs /\ proc' = proc
              /\ Stepped(t, "list_cs") =>
                    /\ response'[t][1].text = "{json}"
                    /\ \A m \in Names, c \in Cmds :
                          JsonHas(response'[t][1].arg, m, c) <=> commands[m] = c
                    /\ \A m \in Names :
                          JsonHasName(response'[t][1].arg, m) <=> commands[m] # NoCmd
                    /\ UNCHANGED <<commands, procs, proc>>
              /\ (Stepped(t, "exec_cs1") /\ commands[n] = NoCmd) =>
                    /\ pc'[t] = "done"
                    /\ LastLine(response'[t]) = RespNotRegistered(n)
                    /\ procs' = procs /\ proc' = proc
        /\ commands' # commands =>
              \E t \in Threads : Stepped(t, "add_cs") \/ Stepped(t, "remove_cs")
      ]_vars

(* C9 witness: a name was removed while running, and a later Execute of it *)
(* was answered "not registered yet" with the old entry still in procs.    *)
C9_Witness ==
    \E t, u, v \in Threads :
        /\ u < v
        /\ msg[t].verb = "Execute" /\ pc[t] = "exec_wait"
        /\ procs[msg[t].name] = pid[t]
        /\ msg[u] = [verb |-> "Remove", name |-> msg[t].name, command |-> Nil]
        /\ pc[u] = "done"
        /\ msg[v] = [verb |-> "Execute", name |-> msg[t].name, command |-> Nil]
        /\ pc[v] = "done" /\ response[v] = <<RespNotRegistered(msg[t].name)>>
        /\ commands[msg[t].name] = NoCmd

(* C10 (as claimed): an Execute that found its name already running        *)
(* answers something other than the "not registered" response.             *)
C10_AlreadyRunningDistinct ==
    \A t \in Threads :
        (msg[t].verb = "Execute" /\ pc[t] = "done" /\ is_running[t]) =>
            response[t] # <<RespNotRegistered(msg[t].name)>>

---------------------------------------------------------------------------
(* C11: Restart(n) runs Kill(n) to completion and then Execute(n) whatever *)
(* Kill answered, and answers Kill's line followed by Execute's line; the  *)
(* child it spawns has a pid never used before, its insert leaves n in     *)
(* running under that pid, and while it waits for that child the           *)
(* completion of another Execute handler does not take the entry away.     *)
C11_RestartKillThenExecute ==
    [][\A t \in Threads : msg[t].verb = "Restart" =>
        LET n == msg[t].name IN
        /\ KillContract(t)
        /\ ExecCheckContract(t)
        /\ ExecFinishContract(t)
        /\ Stepped(t, "kill_cs") =>
              /\ pc'[t] = "exec_lock1"
              /\ Len(response'[t]) = 1
        /\ Stepped(t, "exec_spawn") =>
              /\ proc[pid'[t]] = "none" /\ proc'[pid'[t]] = "run"
              /\ \A m \in Names : procs[m] # pid'[t]
              /\ \A u \in Threads : pid[u] # pid'[t]
        /\ Stepped(t, "exec_cs2") =>
              /\ procs' = [procs EXCEPT ![n] = pid[t]]
              /\ pc'[t] = "exec_wait"
        /\ (pc[t] # "done" /\ pc'[t] = "done") =>
              /\ Len(response'[t]) = 2
              /\ response'[t][1] \in KillResponses(n)
              /\ response'[t][2] \in ExecuteResponses(n)
        /\ \A u \in Threads \ {t} :
              (pc[t] = "exec_wait" /\ procs[n] = pid[t] /\ Stepped(u, "exec_cs3"))
                  => procs'[n] = pid[t]
    ]_vars

(* C11 witness: a Restart that killed the running child of an earlier      *)
(* Execute waits for its own new child, registered under the new pid,      *)
(* after the earlier handler has completed without removing the entry.     *)
C11_Witness ==
    \E t, u \in Threads :
        /\ msg[t].verb = "Restart" /\ pc[t] = "exec_wait"
        /\ response[t] = <<RespKilled>>
        /\ procs[msg[t].name] = pid[t] /\ proc[pid[t]] = "run"
        /\ msg[u].verb = "Execute" /\ msg[u].name = msg[t].name
        /\ pc[u] = "done" /\ pid[u] # pid[t]
        /\ response[u] = <<RespExecutedRaced(msg[u].name)>>

---------------------------------------------------------------------------
(* C12: every step that changes commands or running is the body of a       *)
(* critical section and writes the snapshot of the new Registry before it  *)
(* releases the lock, and every Add and Remove also writes the new         *)
(* commands to the command-definition store; so whenever the lock is free  *)
(* and a snapshot has been written it equals commands and running, and a   *)
(* command-definition store that exists equals commands.                   *)
Mutates == commands' # commands \/ procs' # procs

C12_FlushedInsideCriticalSection ==
    /\ []((lock = NoThread /\ stateFile.exists) => stateFile = SaveState(commands, procs))
    /\ [](configFile.exists => configFile = WriteCommands(commands))
    /\ [][/\ Mutates =>
              /\ lock # NoThread
              /\ pc[lock] \in {AfterLock(p) : p \in LockPcs}
              /\ pc'[lock] # pc[lock]
              /\ lock' = NoThread
              /\ stateFile' = SaveState(commands', procs')
          /\ \A t \in Threads :
                (Stepped(t, "add_cs") \/ Stepped(t, "remove_cs")) =>
                    /\ stateFile' = SaveState(commands', procs')
                    /\ configFile' = WriteCommands(commands')
       ]_vars

(* C12 witness: the lock is free after an Add has changed a command, an    *)
(* Execute has inserted its pid, and a Restart has removed that pid and    *)
(* inserted its own, and both files hold the Registry as it is in memory.  *)
C12_Witness ==
    /\ lock = NoThread
    /\ \E t, u, w \in Threads :
          /\ msg[t].verb = "Add" /\ pc[t] = "done"
          /\ commands[msg[t].name] = msg[t].command
          /\ configFile.exists /\ configFile.commands[msg[t].name] = "c2"
          /\ msg[u].verb = "Execute" /\ pc[u] = "exec_wait"
          /\ msg[w].verb = "Restart" /\ pc[w] = "exec_wait" /\ response[w] = <<RespKilled>>
          /\ msg[w].name = msg[u].name /\ procs[msg[w].name] = pid[w]
    /\ stateFile = SaveState(commands, procs)
    /\ configFile = WriteCommands(commands)

---------------------------------------------------------------------------
(* C13: what save_state wrote for a Registry, an agent started with keep   *)
(* and without a config file reads back as the same commands and the same  *)
(* running map.                                                            *)
Built == main["A"] = "new" /\ main'["A"] = "probe"

C13_PersistenceRoundTrip ==
    [][(Built /\ keep /\ stateFile.exists /\ ~configFile.exists) =>
          \E c \in RegistryCommands, r \in [Names -> {NoPid} \cup 1..MaxSnapshotPid] :
              /\ stateFile = SaveState(c, r)
              /\ commands' = c
              /\ procs' = r
    ]_vars

(* C13 witness: an agent started with keep and no config file holds the    *)
(* Registry of the snapshot, with a command, and a pid of several digits.  *)
C13_Witness ==
    /\ main["A"] = "probe" /\ keep /\ stateFile.exists /\ ~configFile.exists
    /\ commands = stateFile.commands /\ procs = stateFile.procs
    /\ commands["a"] = "c2" /\ commands["b"] = NoCmd
    /\ procs["a"] = MaxSnapshotPid /\ procs["b"] = 1

---------------------------------------------------------------------------
(* C14: at start-up commands are those of the config file whenever it      *)
(* exists, those of the snapshot when keep is requested, the snapshot      *)
(* exists and the config file does not, and empty otherwise; running is    *)
(* that of the snapshot when keep is requested and the snapshot exists,    *)
(* and empty otherwise.                                                    *)
C14_StartupRules ==
    [][Built =>
          /\ configFile.exists => commands' = configFile.commands
          /\ (~configFile.exists /\ keep /\ stateFile.exists) =>
                commands' = stateFile.commands
          /\ (~configFile.exists /\ ~(keep /\ stateFile.exists)) =>
                commands' = NoCommands
          /\ (keep /\ stateFile.exists) => procs' = stateFile.procs
          /\ ~(keep /\ stateFile.exists) => procs' = NoProcs
          /\ UNCHANGED <<stateFile, configFile>>
    ]_vars

(* C14 witness: keep with both files present and different commands: the   *)
(* commands are the config file's, the running map is the snapshot's.      *)
C14_Witness ==
    /\ main["A"] = "probe" /\ keep /\ stateFile.exists /\ configFile.exists
    /\ stateFile.commands # configFile.commands
    /\ commands = configFile.commands /\ commands["a"] = "c1"
    /\ procs = stateFile.procs /\ procs["b"] = 2

---------------------------------------------------------------------------
(* C15: at most one agent serves the channel: whatever the interleaving of *)
(* the start-up steps of two agents, never two of them are inside their    *)
(* accept loops.                                                           *)
C15_AtMostOneAgentServes ==
    Cardinality({a \in Agents : InAcceptLoop(a)}) <= 1

---------------------------------------------------------------------------
(* C20: a client that found no agent answering its probe, the socket path  *)
(* absent or stale, gets its request answered by the agent it launched     *)
(* and does not fail to connect.                                           *)
C20_RequestAnsweredAfterLaunch ==
    (client.pc = "done" /\ client.alive # "running") => client.out = "answered"

---------------------------------------------------------------------------
(* C16: the loop test that reads the flag as false leaves the accept loop; *)
(* from then on no connection is accepted and the loop is not entered      *)
(* again; the Registry is persisted after the loop has been left, and the  *)
(* socket path is removed only after that final save.                      *)
LeftLoop == main["A"] \in {"join", "save", "unlink", "exited", "panicked"}

C16_ShutdownOrder ==
    /\ [](main["A"] \in {"unlink", "exited"} => stateFile = SaveState(commands, procs))
    /\ [](sock.path = "absent" => main["A"] = "exited")
    /\ [][/\ (main["A"] = "loop" /\ main'["A"] # "loop") =>
                main'["A"] = IF flag THEN "accept" ELSE "join"
          /\ LeftLoop =>
                /\ LeftLoop'
                /\ \A t \in Threads : pc[t] = "idle" => pc'[t] = "idle"
          /\ (\E t \in Threads : pc[t] = "idle" /\ pc'[t] # "idle") =>
                main["A"] = "accept"
          /\ (main["A"] = "save" /\ main'["A"] # "save") =>
                /\ main'["A"] = "unlink"
                /\ stateFile' = SaveState(commands, procs)
                /\ sock' = sock
          /\ sock'.path # sock.path =>
                /\ main["A"] = "unlink" /\ main'["A"] = "exited"
                /\ stateFile = SaveState(commands, procs)
                /\ sock'.path = "absent"
       ]_vars

(* C16 witness: after a signal the agent has left the loop, saved the      *)
(* Registry a served Add had changed, and removed the socket path.         *)
C16_Witness ==
    /\ ~flag /\ main["A"] = "exited" /\ sock.path = "absent"
    /\ stateFile = SaveState(commands, procs)
    /\ \E t \in Threads : msg[t].verb = "Add" /\ pc[t] = "done"
    /\ \E t \in Threads : msg[t].verb = "Execute" /\ pc[t] = "done" /\ pid[t] # NoPid

---------------------------------------------------------------------------
(* C18: a spawn that fails is confined to its request: the client gets an  *)
(* error response, and the agent still saves the Registry and removes the  *)
(* socket path when it is shut down later.                                 *)
C18_SpawnFailureConfined ==
    /\ \A t \in Threads : pc[t] = "panicked" => response[t] # <<>>
    /\ main["A"] # "panicked"

---------------------------------------------------------------------------
(* C19: the final save and the removal of the socket path happen only when *)
(* every handler has finished, with the lock free; no step of the shutdown *)
(* or of the signal ends a child or moves a handler.                       *)
C19_ShutdownJoinsHandlers ==
    /\ [](main["A"] \in {"save", "unlink", "exited"} =>
            /\ lock = NoThread
            /\ \A t \in Threads : pc[t] \in {"idle", "done"})
    /\ [][/\ (main' # main \/ flag' # flag) =>
                /\ proc' = proc
                /\ \A t \in Threads : pc'[t] = pc[t] \/ pc[t] = "idle"
                /\ response' = response
          /\ (stateFile' # stateFile /\ main["A"] = "save") =>
                /\ \A t \in Threads : pc[t] \in {"idle", "done"}
                /\ stateFile' = SaveState(commands, procs)
       ]_vars

(* C19 witness: the signal has been observed and the loop left while an    *)
(* Execute handler still waits for its running child: the shutdown waits.  *)
C19_Witness ==
    /\ ~flag /\ main["A"] = "join"
    /\ stateFile = SaveState(commands, procs)
    /\ \E t \in Threads :
          /\ msg[t].verb = "Execute" /\ pc[t] = "exec_wait"
          /\ proc[pid[t]] = "run" /\ procs[msg[t].name] = pid[t]

---------------------------------------------------------------------------
(* C17: an entry of running, also one recovered from the snapshot of a     *)
(* prior instance, stays only while its process has not exited: once the   *)
(* process recorded for n has exited, that entry eventually leaves         *)
(* running.                                                                *)
Exited(p) == proc[p] \in {"zombie", "reaped"}

C17_ExitedEntryLeaves ==
    \A n \in Names : \A p \in Pids \cup {SnapshotPid} :
        (procs[n] = p /\ Exited(p)) ~> (procs[n] # p)

(* For comparison: the entries this agent inserted itself do leave.        *)
OwnExitedEntryLeaves ==
    \A n \in Names : \A p \in Pids :
        (procs[n] = p /\ Exited(p)) ~> (procs[n] # p)

=============================================================================
